---------------------------- MODULE Spec2Model ----------------------------
(***************************************************************************)
(* A model of premise's activity filter (InventorySet.act_fltr,            *)
(* generate_sets_from_filters, generate_gains_mapping_IAM) and of the       *)
(* pathways data-package exporter (PathwaysDataPackage).                   *)
(*                                                                         *)
(* Python strings are sequences of one-character strings, so that `in`     *)
(* (substring), str.lower and str.upper are computed, not assumed.         *)
(* Python dicts are functions over their key set where the iteration order *)
(* cannot change the outcome, and sequences of entries where it can.       *)
(***************************************************************************)
EXTENDS Naturals, Sequences, FiniteSets, TLC

VARIABLES
    (* --- act_fltr / generate_sets_from_filters --- *)
    database,      \* InventorySet.database: the inventory (list of records)
    fltr,          \* the include specification passed to act_fltr
    mask,          \* the exclude specification passed to act_fltr
    filter_exact,  \* act_fltr's filter_exact flag
    mask_exact,    \* act_fltr's mask_exact flag
    call,          \* which entry point ran: "none", "act_fltr", "generate_sets"
    ret,           \* what act_fltr did: [raised, out, evaluated]
    filtr,         \* generate_sets_from_filters: technology -> Filter Definition
    dbarg,         \* generate_sets_from_filters: the database argument
    sets,          \* generate_sets_from_filters: [raised, map]
    (* --- PathwaysDataPackage.add_variables_mapping --- *)
    scenarios,        \* self.scenarios / self.datapackage.scenarios
    table,            \* the rows of the iam_variables_mapping YAML files
    active_vars,      \* the local `vars`: the scenario variables kept
    mapping,          \* the local mapping: variable -> entry
    model_variables,  \* the scenario variables claimed so far
    printed,          \* the diagnostics printed
    mpc,              \* where add_variables_mapping stands
    (* --- PathwaysDataPackage.export_datapackage --- *)
    scenario_names,   \* self.scenario_names
    directory,        \* the files under <cwd>/pathways: [path, run]
    removed,          \* the files the last rmtree deleted
    runs,             \* the export runs started so far
    slices,           \* the slices of the concatenated array, in order
    labels,           \* array.coords["scenario"], once assigned
    xpc,              \* where export_datapackage stands
    (* --- InventorySet.generate_gains_mapping_IAM --- *)
    gains_mapping,    \* the argument `mapping`: sector -> set of names
    gains_passed,     \* the argument as the caller passed it
    EU_to_IAM_var,    \* the items of get_mapping(..., "gains_aliases_IAM")
    new_map,          \* the local new_map, a defaultdict(set)
    gpc               \* where generate_gains_mapping_IAM stands

fltrVars == <<database, fltr, mask, filter_exact, mask_exact, call, ret,
              filtr, dbarg, sets>>

mapRest == <<table, active_vars, mapping, model_variables, printed, mpc>>

mapVars == <<scenarios, mapRest>>

expVars == <<scenario_names, directory, removed, runs, slices, labels, xpc>>

gainsVars == <<gains_mapping, gains_passed, EU_to_IAM_var, new_map, gpc>>

vars == <<fltrVars, mapVars, expVars, gainsVars>>

-----------------------------------------------------------------------------
(* Bounds *)

\* longest inventory handed to the filter
MaxRecords == 2
\* longest pattern list of one field
MaxPatterns == 2
\* most rows in the Alias Table
MaxRows == 2
\* most production pathways in a configuration
MaxPathways == 2
\* most model aliases in one row of the Alias Table
MaxAliases == 2

-----------------------------------------------------------------------------
(* Strings *)

EmptyStr == <<>>
ElecHardCoal == <<"e","l","e","c","t","r","i","c","i","t","y"," ","p","r","o","d","u","c","t","i","o","n",","," ","h","a","r","d"," ","c","o","a","l">>
ElecWind == <<"e","l","e","c","t","r","i","c","i","t","y"," ","p","r","o","d","u","c","t","i","o","n",","," ","w","i","n","d">>
MarketElecHV == <<"m","a","r","k","e","t"," ","f","o","r"," ","e","l","e","c","t","r","i","c","i","t","y",","," ","h","i","g","h"," ","v","o","l","t","a","g","e">>
Electricity == <<"e","l","e","c","t","r","i","c","i","t","y">>
Wind == <<"w","i","n","d">>
HardCoal == <<"h","a","r","d"," ","c","o","a","l">>
ElecHV == <<"e","l","e","c","t","r","i","c","i","t","y",","," ","h","i","g","h"," ","v","o","l","t","a","g","e">>
KWh == <<"k","i","l","o","w","a","t","t"," ","h","o","u","r">>
Kg == <<"k","i","l","o","g","r","a","m">>

\* Python's `sub in s` on strings
StrContains(s, sub) ==
    \E i \in 0..(Len(s) - Len(sub)) : SubSeq(s, i + 1, i + Len(sub)) = sub

-----------------------------------------------------------------------------
(* Inventory records and filter specifications *)

\* an inventory record: a dict with name, reference product and unit
Rec(n, p, u) == [k \in {"name", "reference product", "unit"} |->
                    IF k = "name" THEN n ELSE IF k = "reference product" THEN p ELSE u]

RecordPool == { Rec(ElecHardCoal, ElecHV, KWh),
                Rec(ElecWind, ElecHV, KWh),
                Rec(MarketElecHV, ElecHV, KWh) }

SeqsUpTo(S, n) == UNION {[1..k -> S] : k \in 0..n}

\* the inventories drawn: each record of the pool at most once, in any order
Databases ==
    {d \in SeqsUpTo(RecordPool, MaxRecords) :
        \A i, j \in 1..Len(d) : i # j => d[i] # d[j]}

\* a dict value: one pattern (a str) or a list of patterns
StrVal(s) == [islist |-> FALSE, pats |-> <<s>>]
ListVal(l) == [islist |-> TRUE, pats |-> l]

IncludePatterns == {ElecHardCoal, Electricity}
RefProductPatterns == {Electricity}
MaskPatterns == {Wind}

ValuesOver(P) == {StrVal(s) : s \in P} \cup {ListVal(l) : l \in SeqsUpTo(P, MaxPatterns)}

\* dicts over the fields name and reference product; to keep the input set
\* small the reference product field carries one pattern, never a list
DictsOver(P) ==
    {d \in UNION {[D -> ValuesOver(P \cup RefProductPatterns)] :
                      D \in SUBSET {"name", "reference product"}} :
        /\ "name" \in DOMAIN d =>
              \A i \in 1..Len(d["name"].pats) : d["name"].pats[i] \in P
        /\ "reference product" \in DOMAIN d =>
              /\ ~d["reference product"].islist
              /\ d["reference product"].pats[1] \in RefProductPatterns}

\* what a caller may pass as fltr or mask: None, a str, a list, or a dict
NoneArg == [tag |-> "none", val |-> ListVal(<<>>), dict |-> <<>>]
BareArg(v) == [tag |-> IF v.islist THEN "list" ELSE "str", val |-> v, dict |-> <<>>]
DictArg(d) == [tag |-> "dict", val |-> ListVal(<<>>), dict |-> d]

ArgsOver(P) == {NoneArg} \cup {BareArg(v) : v \in ValuesOver(P)}
                         \cup {DictArg(d) : d \in DictsOver(P)}

-----------------------------------------------------------------------------
(* wurst.searching, as act_fltr uses it *)

\* x.get(field, "")
GetField(x, field) == IF field \in DOMAIN x THEN x[field] ELSE EmptyStr

\* ws.contains(field, value): value in x.get(field, "")
contains(field, value, x) == StrContains(GetField(x, field), value)

\* ws.either(*[ws.contains(field, v) for v in value]): any(...)
either_contains(field, value, x) ==
    \E i \in 1..Len(value) : contains(field, value[i], x)

-----------------------------------------------------------------------------
(* InventorySet.act_fltr *)

\* lines 277-286: None becomes {}, a str or a list becomes {"name": ...}
NormaliseArg(arg) ==
    CASE arg.tag = "none" -> <<>>
      [] arg.tag \in {"str", "list"} -> [k \in {"name"} |-> arg.val]
      [] OTHER -> arg.dict

\* a variant that OR-combines the include fields
IncludeFiltersAnyField(f, x) ==
    \E field \in DOMAIN f :
        IF f[field].islist
        THEN either_contains(field, f[field].pats, x)
        ELSE contains(field, f[field].pats[1], x)

\* lines 293-297: one filter per include field; a list is OR-combined
IncludeFilters(f, x) ==
    \A field \in DOMAIN f :
        IF f[field].islist
        THEN either_contains(field, f[field].pats, x)
        ELSE contains(field, f[field].pats[1], x)

\* a variant that OR-combines the mask fields
MaskFiltersAnyField(m, x) ==
    \E field \in DOMAIN m :
        IF m[field].islist
        THEN \A i \in 1..Len(m[field].pats) : ~contains(field, m[field].pats[i], x)
        ELSE ~contains(field, m[field].pats[1], x)

\* lines 299-303: one ws.exclude per mask pattern
MaskFilters(m, x) ==
    \A field \in DOMAIN m :
        IF m[field].islist
        THEN \A i \in 1..Len(m[field].pats) : ~contains(field, m[field].pats[i], x)
        ELSE ~contains(field, m[field].pats[1], x)

\* line 305: ws.get_many(database, *filters): the filters applied in turn;
\* all of them are pure predicates of one record, so their order is immaterial
get_many(db, f, m) ==
    SelectSeq(db, LAMBDA x : IncludeFilters(f, x) /\ MaskFilters(m, x))

\* the whole of act_fltr; fe and me are filter_exact and mask_exact, which
\* the body never reads. evaluated counts the records the filters were run on.
act_fltr(db, fArg, mArg, fe, me) ==
    LET f == NormaliseArg(fArg)
        m == NormaliseArg(mArg)
    IN  IF DOMAIN f = {}                       \* assert len(fltr) > 0
        THEN [raised |-> TRUE, out |-> <<>>, evaluated |-> 0]
        ELSE [raised |-> FALSE, out |-> get_many(db, f, m), evaluated |-> Len(db)]

NoRet == [raised |-> FALSE, out |-> <<>>, evaluated |-> 0]
NoSets == [raised |-> FALSE, map |-> <<>>]

-----------------------------------------------------------------------------
(* InventorySet.generate_sets_from_filters *)

\* a Filter Definition as the YAML files give it: the keyword arguments of
\* act_fltr; a missing key leaves the parameter at its default None
FilterDef(f, m) == [fltr |-> f, mask |-> m]

\* the database parameter: None (not given) or a list
NoDb == [given |-> FALSE, db |-> <<>>]
GivenDb(db) == [given |-> TRUE, db |-> db]

\* line 319: database or self.database (None and [] are both falsy)
DatabaseOr(dbArg, selfdb) ==
    IF dbArg.given /\ dbArg.db # <<>> THEN dbArg.db ELSE selfdb

\* a variant that projects to the reference product
NameSetOfProducts(actlst) == {actlst[i]["reference product"] : i \in 1..Len(actlst)}

\* line 322: {act["name"] for act in actlst}
NameSet(actlst) == {actlst[i]["name"] : i \in 1..Len(actlst)}

\* lines 319-322; a definition whose act_fltr call raises ends the whole call
generate_sets_from_filters(selfdb, flt, dbArg) ==
    LET db == DatabaseOr(dbArg, selfdb)
        techs == [tech \in DOMAIN flt |->
                     act_fltr(db, flt[tech].fltr, flt[tech].mask, FALSE, FALSE)]
    IN  IF \E tech \in DOMAIN flt : techs[tech].raised
        THEN [raised |-> TRUE, map |-> <<>>]
        ELSE [raised |-> FALSE,
              map |-> [tech \in DOMAIN flt |-> NameSet(techs[tech].out)]]

\* lines 150-159: generate_powerplant_map, self.powerplant_filters being flt
generate_powerplant_map(selfdb, flt) == generate_sets_from_filters(selfdb, flt, NoDb)

-----------------------------------------------------------------------------
(* PathwaysDataPackage: strings *)

Remind == <<"r","e","m","i","n","d">>
Image == <<"i","m","a","g","e">>
Message == <<"m","e","s","s","a","g","e">>
SSP2Base == <<"S","S","P","2","-","B","a","s","e">>
SSP2RCP19 == <<"S","S","P","2","-","R","C","P","1","9">>
FECoal == <<"F","E","|","C","o","a","l">>
FinalEnergyCoal == <<"F","i","n","a","l"," ","E","n","e","r","g","y","|","C","o","a","l">>
FEWind == <<"F","E","|","W","i","n","d">>
EmissionsCO2 == <<"E","m","i","s","s","i","o","n","s","|","C","O","2">>
EfficiencyCoal == <<"T","e","c","h","|","C","o","a","l","|","E","F","F","I","C","I","E","N","C","Y">>
ProductionCoal == <<"P","r","o","d","u","c","t","i","o","n","|","C","o","a","l">>
ProductionMine == <<"P","r","o","d","u","c","t","i","o","n","|","M","i","n","e">>
ProductionSolar == <<"P","r","o","d","u","c","t","i","o","n","|","S","o","l","a","r">>
VarCoal == <<"C","o","a","l">>
VarHardCoal == <<"h","a","r","d"," ","c","o","a","l">>
VarWind == <<"W","i","n","d">>
VarCO2 == <<"C","O","2">>
VarBiomass == <<"B","i","o","m","a","s","s">>
VarGDP == <<"G","D","P">>
VarMine == <<"m","i","n","e">>
VarSolar == <<"s","o","l","a","r">>
HardCoalMine == <<"h","a","r","d"," ","c","o","a","l"," ","m","i","n","e"," ","o","p","e","r","a","t","i","o","n">>
MarketHardCoal == <<"m","a","r","k","e","t"," ","f","o","r"," ","h","a","r","d"," ","c","o","a","l">>
WindTurbine == <<"w","i","n","d"," ","t","u","r","b","i","n","e">>
Mine == <<"m","i","n","e">>
Solar == <<"s","o","l","a","r">>
DE == <<"D","E">>
FR == <<"F","R">>

UpperCase == <<"A","B","C","D","E","F","G","H","I","J","K","L","M",
               "N","O","P","Q","R","S","T","U","V","W","X","Y","Z">>
LowerCase == <<"a","b","c","d","e","f","g","h","i","j","k","l","m",
               "n","o","p","q","r","s","t","u","v","w","x","y","z">>

\* str.lower()
lower(s) ==
    [i \in 1..Len(s) |->
        IF \E n \in DOMAIN UpperCase : UpperCase[n] = s[i]
        THEN LowerCase[CHOOSE n \in DOMAIN UpperCase : UpperCase[n] = s[i]]
        ELSE s[i]]

\* str.upper()
upper(s) ==
    [i \in 1..Len(s) |->
        IF \E n \in DOMAIN LowerCase : LowerCase[n] = s[i]
        THEN UpperCase[CHOOSE n \in DOMAIN LowerCase : LowerCase[n] = s[i]]
        ELSE s[i]]

-----------------------------------------------------------------------------
(* PathwaysDataPackage: scenario entries, Alias Table, configurations *)

\* an inventory record of a scenario database
Act(n, p, u, loc) ==
    [k \in {"name", "reference product", "unit", "location"} |->
        CASE k = "name" -> n
          [] k = "reference product" -> p
          [] k = "unit" -> u
          [] OTHER -> loc]

\* scenario databases: two records that differ in location only
Inventory == << Act(HardCoalMine, HardCoal, Kg, DE),
                Act(MarketHardCoal, HardCoal, Kg, DE),
                Act(HardCoalMine, HardCoal, Kg, FR),
                Act(ElecWind, ElecHV, KWh, DE) >>
InventoryImage == << Act(MarketHardCoal, HardCoal, Kg, DE) >>

\* one entry of scenario["configurations"]["production pathways"]:
\*   var: {"production volume": {"variable": ...}, "ecoinvent alias": {...}}
Pathway(var, variable, alias) == [var |-> var, variable |-> variable, alias |-> alias]

PathwayPool ==
    { Pathway(VarHardCoal, ProductionCoal, [k \in {"name"} |-> StrVal(HardCoal)]),
      Pathway(VarMine, ProductionMine,
              [k \in {"name", "mask"} |->
                  IF k = "name" THEN StrVal(Mine) ELSE ListVal(<<Wind>>)]),
      Pathway(VarSolar, ProductionSolar, [k \in {"name"} |-> StrVal(Solar)]) }

\* the "production pathways" dicts drawn: distinct keys, in any order
PathwayConfigs ==
    {c \in SeqsUpTo(PathwayPool, MaxPathways) :
        \A i, j \in 1..Len(c) : i # j => c[i].var # c[j].var}

NoExternal == [present |-> FALSE, scenarios |-> <<>>, data |-> <<>>]
NoConfig == [present |-> FALSE, pathways |-> <<>>]

\* a scenario as the caller gives it, with what NewDatabase loads for it:
\* "iam data" (its variables coordinate), "database", and, for a scenario
\* with "external scenarios", "external data" and "configurations"
Scenario(model, pathway, variables, db, external, config) ==
    [model |-> model, pathway |-> pathway, year |-> 0, variables |-> variables,
     database |-> db, external |-> external, configurations |-> config]

ScnRemind == Scenario(Remind, SSP2Base, <<FECoal, FEWind, EmissionsCO2>>,
                      Inventory, NoExternal, NoConfig)
ScnImage == Scenario(Image, SSP2RCP19, <<FinalEnergyCoal, EfficiencyCoal>>,
                     InventoryImage, NoExternal, NoConfig)
ScnExternal(pp) ==
    Scenario(Remind, SSP2Base, <<FEWind>>, Inventory,
             [present |-> TRUE,
              scenarios |-> << VarCoal >>,
              data |-> << <<ProductionCoal, FECoal>> >>],
             [present |-> TRUE, pathways |-> pp])

\* PathwaysDataPackage.__init__, lines 35-41: one entry per year and scenario
NewScenarios(years, scns) ==
    [n \in 1..(Len(years) * Len(scns)) |->
        [scns[((n - 1) % Len(scns)) + 1] EXCEPT
            !.year = years[((n - 1) \div Len(scns)) + 1]]]

\* one row of an iam_variables_mapping YAML file
Row(var, has_keys, iam_aliases, f, m) ==
    [var |-> var, has_keys |-> has_keys, iam_aliases |-> iam_aliases,
     fltr |-> f, mask |-> m]
Alias(model, variable) == [model |-> model, variable |-> variable]

RowCoal == Row(VarCoal, TRUE, <<Alias(Remind, FECoal)>>,
               DictArg([k \in {"name"} |-> StrVal(HardCoal)]), NoneArg)
RowHardCoal == Row(VarHardCoal, TRUE,
                   <<Alias(Remind, FECoal), Alias(Image, FinalEnergyCoal)>>,
                   BareArg(ListVal(<<HardCoal>>)), BareArg(StrVal(Mine)))
RowWind == Row(VarWind, TRUE, <<Alias(Message, FECoal), Alias(Remind, FEWind)>>,
               BareArg(StrVal(WindTurbine)), NoneArg)
RowCO2 == Row(VarCO2, TRUE,
              <<Alias(Remind, EmissionsCO2), Alias(Image, EfficiencyCoal)>>,
              BareArg(StrVal(HardCoal)), NoneArg)
RowBiomass == Row(VarBiomass, TRUE, <<Alias(Remind, FEWind)>>,
                  DictArg([k \in {"location"} |-> StrVal(DE)]), NoneArg)
RowGDP == Row(VarGDP, FALSE, <<Alias(Remind, FECoal)>>, NoneArg, NoneArg)

RowPool == {RowCoal, RowHardCoal, RowWind, RowCO2, RowBiomass, RowGDP}

\* the rows of all YAML files, in the order the two loops of lines 195-203
\* visit them (a variable may recur, in another file)
AliasTables == SeqsUpTo(RowPool, MaxRows)

-----------------------------------------------------------------------------
(* PathwaysDataPackage.find_activities and the deduplication *)

\* a variant that keeps every key of the record
ProjectAll(act) == act

\* lines 134-138: {"name": ..., "reference product": ..., "unit": ...}
Project(act) == [k \in {"name", "reference product", "unit"} |-> act[k]]

\* lines 126-131: a dict of filters keeps the keys name, reference product, unit
KeepFilterKeys(filters) ==
    IF filters.tag = "dict"
    THEN DictArg([k \in DOMAIN filters.dict \cap {"name", "reference product", "unit"} |->
                     filters.dict[k]])
    ELSE filters

\* line 142: mask or {} (None, "", [] and {} are falsy)
MaskOrEmpty(m) ==
    IF \/ m.tag = "none"
       \/ m.tag = "str" /\ m.val.pats[1] = EmptyStr
       \/ m.tag = "list" /\ m.val.pats = <<>>
       \/ m.tag = "dict" /\ DOMAIN m.dict = {}
    THEN DictArg(<<>>)
    ELSE m

\* lines 111-144
find_activities(filters, db, m) ==
    LET r == act_fltr(db, KeepFilterKeys(filters), MaskOrEmpty(m), FALSE, FALSE)
    IN  [raised |-> r.raised,
         out |-> [i \in 1..Len(r.out) |-> Project(r.out[i])]]

\* sorted(d.items()): the (key, value) pairs in ascending key order
KeyOrder == <<"location", "name", "reference product", "unit">>
SortedItems(d) ==
    LET keys == SelectSeq(KeyOrder, LAMBDA k : k \in DOMAIN d)
    IN  [i \in 1..Len(keys) |-> <<keys[i], d[keys[i]]>>]

\* dict(t)
DictOf(t) ==
    [k \in {t[i][1] : i \in 1..Len(t)} |->
        t[CHOOSE i \in 1..Len(t) : t[i][1] = k][2]]

\* a variant that keeps the list as it is
NotDeduplicated(dataset) == {dataset}

\* lines 217-223, 253-259:
\*   [dict(t) for t in {tuple(sorted(d.items())) for d in dataset}]
\* the set is listed in hash order, which the code does not fix: every
\* ordering of the distinct entries is a possible outcome
Deduplicated(dataset) ==
    LET S == {SortedItems(dataset[i]) : i \in 1..Len(dataset)}
        n == Cardinality(S)
    IN  {[i \in 1..n |-> DictOf(o[i])] :
            o \in {q \in [1..n -> S] : \A a, b \in 1..n : a # b => q[a] # q[b]}}

\* a variant that compares case-sensitively
ActiveVarsCaseSensitive(scns) ==
    LET lists == {scns[s].variables : s \in 1..Len(scns)}
                 \cup UNION {{scns[s].external.data[e] :
                                 e \in 1..Len(scns[s].external.data)} :
                             s \in {t \in 1..Len(scns) : scns[t].external.present}}
    IN  {v \in UNION {{l[i] : i \in 1..Len(l)} : l \in lists} :
            /\ ~StrContains(v, <<"e","f","f","i","c","i","e","n","c","y">>)
            /\ ~StrContains(v, <<"e","m","i","s","s","i","o","n">>)}

\* lines 155-186: the scenario variables seen, without efficiency and emission
ActiveVars(scns) ==
    LET lists == {scns[s].variables : s \in 1..Len(scns)}
                 \cup UNION {{scns[s].external.data[e] :
                                 e \in 1..Len(scns[s].external.data)} :
                             s \in {t \in 1..Len(scns) : scns[t].external.present}}
    IN  {v \in UNION {{l[i] : i \in 1..Len(l)} : l \in lists} :
            /\ ~StrContains(lower(v), <<"e","f","f","i","c","i","e","n","c","y">>)
            /\ ~StrContains(lower(v), <<"e","m","i","s","s","i","o","n">>)}

\* line 206-208: model in [s["model"] for s in self.scenarios]
LoadedModels(scns) == {scns[s].model : s \in 1..Len(scns)}

\* a variant that never finds the name claimed
NeverClaimed(model_var, claimed) == FALSE

\* line 209: model_var in model_variables
AlreadyClaimed(model_var, claimed) ==
    \E i \in 1..Len(claimed) : claimed[i] = model_var

\* mapping[var] = value
Put(m, key, value) ==
    [k \in DOMAIN m \cup {key} |-> IF k = key THEN value ELSE m[k]]

\* lines 211-223 and 238-259: {"scenario variable": ..., "dataset": [...]}
Entry(sv, dataset) ==
    [k \in {"scenario variable", "dataset"} |->
        IF k = "dataset" THEN dataset ELSE sv]
\* line 211, before the dataset is found
EntryNoDataset(sv) == [k \in {"scenario variable"} |-> sv]

\* lines 271-282: drop the datasets whose name holds another pathway's key
OtherPathways(dataset, var, pathways) ==
    LET variables == {pathways[i].var : i \in 1..Len(pathways)} \ {var}
    IN  IF Len(dataset) > 1
        THEN SelectSeq(dataset,
                LAMBDA d : ~\E v \in variables : StrContains(d["name"], v))
        ELSE dataset

-----------------------------------------------------------------------------
(* Specification of the filter engine: the inputs are drawn, then one call *)

FltrIdle ==
    /\ database = <<>>
    /\ fltr = NoneArg
    /\ mask = NoneArg
    /\ filter_exact = FALSE
    /\ mask_exact = FALSE
    /\ call = "idle"
    /\ ret = NoRet
    /\ filtr = <<>>
    /\ dbarg = NoDb
    /\ sets = NoSets

MapRestIdle ==
    /\ table = <<>>
    /\ active_vars = {}
    /\ mapping = <<>>
    /\ model_variables = <<>>
    /\ printed = {}
    /\ mpc = [phase |-> "idle", i |-> 1, j |-> 1, s |-> 1, k |-> 1]

MapIdle ==
    /\ scenarios = <<>>
    /\ MapRestIdle

ExportIdle ==
    /\ scenario_names = <<>>
    /\ directory = {}
    /\ removed = {}
    /\ runs = 0
    /\ slices = <<>>
    /\ labels = <<>>
    /\ xpc = "idle"

GainsIdle ==
    /\ gains_mapping = <<>>
    /\ gains_passed = <<>>
    /\ EU_to_IAM_var = <<>>
    /\ new_map = <<>>
    /\ gpc = [phase |-> "idle", i |-> 1]

InitFltr ==
    /\ MapIdle
    /\ ExportIdle
    /\ GainsIdle
    /\ database \in Databases
    /\ fltr \in ArgsOver(IncludePatterns)
    /\ mask \in ArgsOver(MaskPatterns)
    /\ filter_exact = FALSE
    /\ mask_exact = FALSE
    /\ call = "none"
    /\ ret = NoRet
    /\ filtr = <<>>
    /\ dbarg = NoDb
    /\ sets = NoSets

CallActFltr ==
    /\ call = "none"
    /\ \E fe \in BOOLEAN, me \in BOOLEAN :
          /\ filter_exact' = fe
          /\ mask_exact' = me
          /\ ret' = act_fltr(database, fltr, mask, fe, me)
    /\ call' = "act_fltr"
    /\ UNCHANGED <<database, fltr, mask, filtr, dbarg, sets>>
    /\ UNCHANGED <<mapVars, expVars, gainsVars>>

\* the Filter Definitions of one category: the drawn (fltr, mask) pair under
\* "coal power plant", alone or next to a second technology
SecondDefs == { FilterDef(BareArg(StrVal(Electricity)), NoneArg),
                FilterDef(NoneArg, NoneArg) }

FiltersWith(second) ==
    [tech \in {"coal power plant"} \cup {t \in {"wind power plant"} : second # <<>>} |->
        IF tech = "coal power plant" THEN FilterDef(fltr, mask) ELSE second[1]]

CallPowerplantMap ==
    /\ call = "none"
    /\ \E second \in {<<>>} \cup {<<d>> : d \in SecondDefs} :
          /\ filtr' = FiltersWith(second)
          /\ dbarg' = NoDb
          /\ sets' = generate_powerplant_map(database, filtr')
    /\ call' = "generate_sets"
    /\ UNCHANGED <<database, fltr, mask, filter_exact, mask_exact, ret>>
    /\ UNCHANGED <<mapVars, expVars, gainsVars>>

\* generate_metals_map's shape of call: the database is passed explicitly
CallGenerateSets ==
    /\ call = "none"
    /\ \E d \in {<<>>, <<Rec(MarketElecHV, ElecHV, KWh)>>} :
          /\ filtr' = FiltersWith(<<>>)
          /\ dbarg' = GivenDb(d)
          /\ sets' = generate_sets_from_filters(database, filtr', dbarg')
    /\ call' = "generate_sets"
    /\ UNCHANGED <<database, fltr, mask, filter_exact, mask_exact, ret>>
    /\ UNCHANGED <<mapVars, expVars, gainsVars>>

NextFltr == CallActFltr \/ CallPowerplantMap \/ CallGenerateSets

SpecFltr == InitFltr /\ [][NextFltr]_vars

-----------------------------------------------------------------------------
(* Properties of the filter engine *)

\* the patterns a specification names for each field, read off the argument
\* as the caller wrote it
TermsOf(arg) ==
    CASE arg.tag = "none" -> <<>>
      [] arg.tag \in {"str", "list"} ->
            [k \in {"name"} |-> {arg.val.pats[i] : i \in 1..Len(arg.val.pats)}]
      [] OTHER ->
            [k \in DOMAIN arg.dict |->
                {arg.dict[k].pats[i] : i \in 1..Len(arg.dict[k].pats)}]

FieldValue(x, k) == IF k \in DOMAIN x THEN x[k] ELSE <<>>

\* (a): every include field holds at least one of its patterns
MeetsInclude(x, arg) ==
    \A k \in DOMAIN TermsOf(arg) :
        \E p \in TermsOf(arg)[k] : StrContains(FieldValue(x, k), p)

\* (b): no exclude field holds any of its patterns
MeetsExclude(x, arg) ==
    \A k \in DOMAIN TermsOf(arg) :
        \A p \in TermsOf(arg)[k] : ~StrContains(FieldValue(x, k), p)

Elems(sq) == {sq[i] : i \in 1..Len(sq)}

NoIncludeTerms(arg) == \A k \in DOMAIN TermsOf(arg) : TermsOf(arg)[k] = {}

\* C2: a call of act_fltr whose include specification has no include terms
\* (None, {}, [], or fields mapped to []) raises, before any record is
\* evaluated
C2_EmptyIncludeRaises ==
    (call = "act_fltr" /\ NoIncludeTerms(fltr)) => (ret.raised /\ ret.evaluated = 0)

\* the inventory a generate_sets_from_filters call works on
TheInventory == IF dbarg.given /\ dbarg.db # <<>> THEN dbarg.db ELSE database

CoalPowerPlantExample ==
    [tech \in {"coal power plant"} |-> FilterDef(BareArg(StrVal(ElecHardCoal)), NoneArg)]

\* C10: the map generate_sets_from_filters returns has exactly the keys of
\* the Filter Definitions, each value the set of names of the records
\* act_fltr returns for that definition; for {"coal power plant": {"fltr":
\* "electricity production, hard coal"}} and records named "electricity
\* production, hard coal" and "electricity production, wind" it returns
\* {"coal power plant": {"electricity production, hard coal"}}
C10_SetsFromFilters ==
    (call = "generate_sets" /\ ~sets.raised) =>
        /\ DOMAIN sets.map = DOMAIN filtr
        /\ \A tech \in DOMAIN filtr :
              sets.map[tech] =
                 {x["name"] : x \in {y \in Elems(TheInventory) :
                     /\ MeetsInclude(y, filtr[tech].fltr)
                     /\ MeetsExclude(y, filtr[tech].mask)}}
        /\ (/\ filtr = CoalPowerPlantExample
            /\ ~dbarg.given
            /\ {x["name"] : x \in Elems(database)} = {ElecHardCoal, ElecWind})
           => sets.map = [tech \in {"coal power plant"} |-> {ElecHardCoal}]

\* C10's case: the end-to-end example has run
C10_Witness ==
    /\ call = "generate_sets" /\ ~sets.raised
    /\ filtr = CoalPowerPlantExample
    /\ ~dbarg.given
    /\ {x["name"] : x \in Elems(database)} = {ElecHardCoal, ElecWind}
    /\ sets.map["coal power plant"] = {ElecHardCoal}

-----------------------------------------------------------------------------
(* Specification of add_variables_mapping: one step per loop iteration *)

\* the scenario lists drawn: one or two models, with or without a scenario
\* that carries an external scenario and any of the configurations
ScenarioLists ==
    { <<ScnRemind>>, <<ScnImage>>, <<ScnRemind, ScnImage>>, <<ScnImage, ScnRemind>> }
    \cup UNION {{ <<ScnExternal(c)>>, <<ScnRemind, ScnExternal(c)>>,
                  <<ScnExternal(c), ScnImage>> } : c \in PathwayConfigs}

InitMap ==
    /\ FltrIdle
    /\ ExportIdle
    /\ GainsIdle
    /\ scenarios \in {NewScenarios(<<2050>>, l) : l \in ScenarioLists}
    /\ table \in AliasTables
    /\ active_vars = {}
    /\ mapping = <<>>
    /\ model_variables = <<>>
    /\ printed = {}
    /\ mpc = [phase |-> "start", i |-> 1, j |-> 1, s |-> 1, k |-> 1]

\* lines 155-186: vars is collected, once
CollectVariables ==
    /\ mpc.phase = "start"
    /\ active_vars' = ActiveVars(scenarios)
    /\ mpc' = [mpc EXCEPT !.phase = "alias"]
    /\ UNCHANGED <<scenarios, table, mapping, model_variables, printed>>
    /\ UNCHANGED <<fltrVars, expVars, gainsVars>>

InAliasPass == mpc.phase = "alias" /\ mpc.i <= Len(table)
CurRow == table[mpc.i]
CurAlias == CurRow.iam_aliases[mpc.j]
\* line 204, and a row with aliases to visit
RowVisited(row) == row.has_keys /\ Len(row.iam_aliases) > 0
AtAlias == InAliasPass /\ RowVisited(CurRow)
NextAlias ==
    IF mpc.j < Len(CurRow.iam_aliases)
    THEN [mpc EXCEPT !.j = @ + 1]
    ELSE [mpc EXCEPT !.i = @ + 1, !.j = 1]

\* line 206-208
Eligible(alias) ==
    /\ alias.variable \in active_vars
    /\ alias.model \in LoadedModels(scenarios)

\* line 204 false: the row lacks iam_aliases or ecoinvent_aliases
AliasSkipRow ==
    /\ InAliasPass /\ ~RowVisited(CurRow)
    /\ mpc' = [mpc EXCEPT !.i = @ + 1, !.j = 1]
    /\ UNCHANGED <<scenarios, table, active_vars, mapping, model_variables, printed>>
    /\ UNCHANGED <<fltrVars, expVars, gainsVars>>

\* line 206 false: the alias is not active or its model is not loaded
AliasNotActive ==
    /\ AtAlias /\ ~Eligible(CurAlias)
    /\ mpc' = NextAlias
    /\ UNCHANGED <<scenarios, table, active_vars, mapping, model_variables, printed>>
    /\ UNCHANGED <<fltrVars, expVars, gainsVars>>

\* lines 224-225: the scenario variable is claimed already
AliasLeaveOut ==
    /\ AtAlias /\ Eligible(CurAlias)
    /\ AlreadyClaimed(CurAlias.variable, model_variables)
    /\ printed' = printed \cup {[msg |-> "Leaving out", what |-> CurAlias.variable,
                                 var |-> CurRow.var]}
    /\ mpc' = NextAlias
    /\ UNCHANGED <<scenarios, table, active_vars, mapping, model_variables>>
    /\ UNCHANGED <<fltrVars, expVars, gainsVars>>

\* lines 209-223: claim the scenario variable and fill mapping[var]
AliasAssign ==
    /\ AtAlias /\ Eligible(CurAlias)
    /\ ~AlreadyClaimed(CurAlias.variable, model_variables)
    /\ model_variables' = Append(model_variables, CurAlias.variable)
    /\ LET r == find_activities(CurRow.fltr, scenarios[1].database, CurRow.mask)
       IN  IF r.raised
           THEN /\ mapping' = Put(mapping, CurRow.var, EntryNoDataset(CurAlias.variable))
                /\ mpc' = [mpc EXCEPT !.phase = "raised"]
           ELSE /\ \E ds \in Deduplicated(r.out) :
                      mapping' = Put(mapping, CurRow.var, Entry(CurAlias.variable, ds))
                /\ mpc' = NextAlias
    /\ UNCHANGED <<scenarios, table, active_vars, printed>>
    /\ UNCHANGED <<fltrVars, expVars, gainsVars>>

\* the loop of lines 195-225 is over
AliasEnd ==
    /\ mpc.phase = "alias" /\ mpc.i > Len(table)
    /\ mpc' = [mpc EXCEPT !.phase = "pathways", !.s = 1, !.k = 1]
    /\ UNCHANGED <<scenarios, table, active_vars, mapping, model_variables, printed>>
    /\ UNCHANGED <<fltrVars, expVars, gainsVars>>

InPathwaysPass == mpc.phase = "pathways" /\ mpc.s <= Len(scenarios)
CurScenario == scenarios[mpc.s]
\* lines 229-232
PathwaysOf(scn) ==
    IF scn.configurations.present THEN scn.configurations.pathways ELSE <<>>
CurPathway == PathwaysOf(CurScenario)[mpc.k]
AtPathway == InPathwaysPass /\ mpc.k <= Len(PathwaysOf(CurScenario))
NextPathway ==
    IF mpc.k < Len(PathwaysOf(CurScenario))
    THEN [mpc EXCEPT !.k = @ + 1]
    ELSE [mpc EXCEPT !.s = @ + 1, !.k = 1]

\* lines 229-232: a scenario without production pathways
PathwaysSkipScenario ==
    /\ InPathwaysPass /\ Len(PathwaysOf(CurScenario)) = 0
    /\ mpc' = [mpc EXCEPT !.s = @ + 1, !.k = 1]
    /\ UNCHANGED <<scenarios, table, active_vars, mapping, model_variables, printed>>
    /\ UNCHANGED <<fltrVars, expVars, gainsVars>>

\* line 234 false: the variable is in the mapping already
PathwayKnown ==
    /\ AtPathway /\ CurPathway.var \in DOMAIN mapping
    /\ mpc' = NextPathway
    /\ UNCHANGED <<scenarios, table, active_vars, mapping, model_variables, printed>>
    /\ UNCHANGED <<fltrVars, expVars, gainsVars>>

\* lines 234-282
PathwayAdd ==
    /\ AtPathway /\ CurPathway.var \notin DOMAIN mapping
    /\ LET var == CurPathway.var
           var_name == CurPathway.variable
           filters == DictArg(CurPathway.alias)
           m == IF "mask" \in DOMAIN CurPathway.alias
                THEN BareArg(CurPathway.alias["mask"]) ELSE NoneArg
           r == find_activities(filters, CurScenario.database, m)
       IN  IF r.raised
           THEN /\ mapping' = Put(mapping, var, EntryNoDataset(var_name))
                /\ mpc' = [mpc EXCEPT !.phase = "raised"]
                /\ UNCHANGED printed
           ELSE /\ \E ds \in Deduplicated(r.out) :
                      /\ mapping' = Put(mapping, var,
                            Entry(var_name,
                                  OtherPathways(ds, var, PathwaysOf(CurScenario))))
                      /\ printed' =
                            IF Len(ds) = 0
                            THEN printed \cup
                                 {[msg |-> "No dataset found", what |-> var_name,
                                   var |-> var]}
                            ELSE printed
                /\ mpc' = NextPathway
    /\ UNCHANGED <<scenarios, table, active_vars, model_variables>>
    /\ UNCHANGED <<fltrVars, expVars, gainsVars>>

\* lines 284-285: yaml.dump(mapping, f)
WriteMapping ==
    /\ mpc.phase = "pathways" /\ mpc.s > Len(scenarios)
    /\ mpc' = [mpc EXCEPT !.phase = "done"]
    /\ UNCHANGED <<scenarios, table, active_vars, mapping, model_variables, printed>>
    /\ UNCHANGED <<fltrVars, expVars, gainsVars>>

NextMap ==
    \/ CollectVariables
    \/ AliasSkipRow \/ AliasNotActive \/ AliasLeaveOut \/ AliasAssign \/ AliasEnd
    \/ PathwaysSkipScenario \/ PathwayKnown \/ PathwayAdd \/ WriteMapping

SpecMap == InitMap /\ [][NextMap]_vars

-----------------------------------------------------------------------------
(* Properties of add_variables_mapping *)

SvOf(m, var) == m[var]["scenario variable"]

\* the alias names a model of a loaded scenario entry and a scenario variable
\* that occurs in the data of a loaded entry and holds neither "efficiency"
\* nor "emission" in any letter case
OccursInData(v) ==
    \E s \in 1..Len(scenarios) :
        \/ v \in Elems(scenarios[s].variables)
        \/ /\ scenarios[s].external.present
           /\ \E e \in 1..Len(scenarios[s].external.data) :
                 v \in Elems(scenarios[s].external.data[e])
ActiveAlias(a) ==
    /\ \E s \in 1..Len(scenarios) : scenarios[s].model = a.model
    /\ OccursInData(a.variable)
    /\ ~StrContains(lower(a.variable), <<"e","f","f","i","c","i","e","n","c","y">>)
    /\ ~StrContains(lower(a.variable), <<"e","m","i","s","s","i","o","n">>)

\* the aliases of the table in the order the loops visit them
AliasPlaces ==
    {<<r, n>> \in (1..Len(table)) \X (1..MaxAliases) :
        table[r].has_keys /\ n <= Len(table[r].iam_aliases)}
Before(p, q) == p[1] < q[1] \/ (p[1] = q[1] /\ p[2] < q[2])
AliasAt(p) == table[p[1]].iam_aliases[p[2]]
\* the first active alias of the table that names its scenario variable
FirstToName(p) ==
    /\ ActiveAlias(AliasAt(p))
    /\ ~\E q \in AliasPlaces :
          Before(q, p) /\ ActiveAlias(AliasAt(q)) /\ AliasAt(q).variable = AliasAt(p).variable

\* C3: in the Alias Table pass, a scenario variable that has been assigned
\* stays recorded, every later alias that names it is skipped without an
\* error and without touching the mapping, and no two entries of the mapping
\* hold the same scenario variable
C3_FirstWriterWins ==
    [][ /\ (AtAlias /\ Eligible(CurAlias)
               /\ CurAlias.variable \in Elems(model_variables))
           => /\ mapping' = mapping
              /\ model_variables' = model_variables
              /\ mpc'.phase = "alias"
        /\ (mpc.phase = "alias" /\ mpc'.phase = "alias")
           => /\ Elems(model_variables) \subseteq Elems(model_variables')
              /\ \A v \in DOMAIN mapping' : SvOf(mapping', v) \in Elems(model_variables')
              /\ \A v, w \in DOMAIN mapping' :
                    v # w => SvOf(mapping', v) # SvOf(mapping', w) ]_vars

\* C3's case: a later row named a claimed scenario variable and was left out,
\* and the pass went on to fill another entry
C3_Witness ==
    /\ mpc.phase = "done"
    /\ \E m \in printed : m.msg = "Leaving out" /\ m.what = FECoal /\ m.var = VarHardCoal
    /\ DOMAIN mapping = {VarCoal, VarHardCoal}
    /\ SvOf(mapping, VarCoal) = FECoal
    /\ SvOf(mapping, VarHardCoal) = FinalEnergyCoal

\* C4: once mapping[var] holds the scenario variable of one model alias of a
\* row, no other model alias of that row reassigns it
C4_OneClaimPerVariable ==
    [][ (/\ AtAlias
         /\ CurRow.var \in DOMAIN mapping
         /\ \E n \in 1..(mpc.j - 1) :
               CurRow.iam_aliases[n].variable = SvOf(mapping, CurRow.var))
        => /\ CurRow.var \in DOMAIN mapping'
           /\ SvOf(mapping', CurRow.var) = SvOf(mapping, CurRow.var) ]_vars

\* the filter of a declared variable, as find_activities applies it
ThreeFields(f) ==
    IF f.tag = "dict"
    THEN DictArg([k \in DOMAIN f.dict \cap {"name", "reference product", "unit"} |->
                     f.dict[k]])
    ELSE f
PathwayMask(p) ==
    IF "mask" \in DOMAIN p.alias THEN BareArg(p.alias["mask"]) ELSE NoneArg
Passes(x, f, m) == MeetsInclude(x, ThreeFields(f)) /\ MeetsExclude(x, m)
Triple(x) == <<x["name"], x["reference product"], x["unit"]>>

Diagnosed(var) == \E m \in printed : m.msg = "No dataset found" /\ m.var = var

\* C7: every declared variable (of the Alias Table or of a production-pathway
\* configuration) whose filter matches no record is in the written mapping
\* with an empty dataset list, and a diagnostic was printed for it
C7_ZeroMatchDiagnosed ==
    mpc.phase = "done" =>
        /\ \A p \in AliasPlaces :
              (/\ table[p[1]].var \in DOMAIN mapping
               /\ SvOf(mapping, table[p[1]].var) = AliasAt(p).variable
               /\ \A x \in Elems(scenarios[1].database) :
                     ~Passes(x, table[p[1]].fltr, table[p[1]].mask))
              => /\ mapping[table[p[1]].var]["dataset"] = <<>>
                 /\ Diagnosed(table[p[1]].var)
        /\ \A s \in 1..Len(scenarios) :
              \A k \in 1..Len(PathwaysOf(scenarios[s])) :
                 LET p == PathwaysOf(scenarios[s])[k]
                 IN  (/\ p.var \in DOMAIN mapping
                      /\ SvOf(mapping, p.var) = p.variable
                      /\ \A x \in Elems(scenarios[s].database) :
                            ~Passes(x, DictArg(p.alias), PathwayMask(p)))
                     => /\ mapping[p.var]["dataset"] = <<>>
                        /\ Diagnosed(p.var)

\* C8: while the Alias Table pass runs, every entry of the mapping holds a
\* scenario variable that its row declares for a loaded model and that is
\* active; when the pass ends, every row with an active alias that is the
\* first to name its scenario variable has an entry
C8_AliasEntriesActive ==
    /\ mpc.phase = "alias" =>
          \A var \in DOMAIN mapping :
             \E p \in AliasPlaces :
                /\ table[p[1]].var = var
                /\ AliasAt(p).variable = SvOf(mapping, var)
                /\ ActiveAlias(AliasAt(p))
    /\ (mpc.phase = "alias" /\ mpc.i > Len(table)) =>
          \A p \in AliasPlaces : FirstToName(p) => table[p[1]].var \in DOMAIN mapping

\* C8's case: the pass has ended, an alias was dropped for naming an emission
\* variable of a loaded model, and another row has its entry
C8_Witness ==
    /\ mpc.phase = "alias" /\ mpc.i > Len(table)
    /\ table = <<RowCO2, RowCoal>>
    /\ \E s \in 1..Len(scenarios) :
          scenarios[s].model = Remind /\ EmissionsCO2 \in Elems(scenarios[s].variables)
    /\ DOMAIN mapping = {VarCoal}

\* C9: every dataset entry has exactly the keys name, reference product and
\* unit, with the values of a record of the database that passes the filter
\* and the mask of the entry's variable; and with the row Coal (remind:
\* "FE|Coal", fltr name "hard coal") first in the table and "FE|Coal" active
\* in a remind scenario, mapping["Coal"] is {"scenario variable": "FE|Coal",
\* "dataset": the "hard coal" records}
C9_DatasetEntries ==
    /\ \A var \in DOMAIN mapping :
          "dataset" \in DOMAIN mapping[var] =>
             \A d \in Elems(mapping[var]["dataset"]) :
                /\ DOMAIN d = {"name", "reference product", "unit"}
                /\ \/ \E p \in AliasPlaces :
                         /\ table[p[1]].var = var
                         /\ AliasAt(p).variable = SvOf(mapping, var)
                         /\ \E x \in Elems(scenarios[1].database) :
                               /\ Triple(x) = Triple(d)
                               /\ Passes(x, table[p[1]].fltr, table[p[1]].mask)
                   \/ \E s \in 1..Len(scenarios) :
                         \E k \in 1..Len(PathwaysOf(scenarios[s])) :
                            LET p == PathwaysOf(scenarios[s])[k]
                            IN  /\ p.var = var
                                /\ p.variable = SvOf(mapping, var)
                                /\ \E x \in Elems(scenarios[s].database) :
                                      /\ Triple(x) = Triple(d)
                                      /\ Passes(x, DictArg(p.alias), PathwayMask(p))
    /\ (/\ mpc.phase \in {"pathways", "done"}
        /\ Len(table) >= 1 /\ table[1] = RowCoal
        /\ \E s \in 1..Len(scenarios) :
              scenarios[s].model = Remind /\ FECoal \in Elems(scenarios[s].variables))
       => /\ VarCoal \in DOMAIN mapping
          /\ DOMAIN mapping[VarCoal] = {"scenario variable", "dataset"}
          /\ SvOf(mapping, VarCoal) = FECoal
          /\ {Triple(d) : d \in Elems(mapping[VarCoal]["dataset"])} =
                {Triple(x) : x \in {y \in Elems(scenarios[1].database) :
                                       StrContains(y["name"], HardCoal)}}

\* C9's case: the Coal row was reconciled against the remind inventory
C9_Witness ==
    /\ mpc.phase = "done"
    /\ Len(table) >= 1 /\ table[1] = RowCoal
    /\ scenarios[1].model = Remind
    /\ VarCoal \in DOMAIN mapping
    /\ SvOf(mapping, VarCoal) = FECoal
    /\ Len(mapping[VarCoal]["dataset"]) = 2

-----------------------------------------------------------------------------
(* PathwaysDataPackage.export_datapackage and add_scenario_data *)

MaxRuns == 2
MaxExternals == 2
MaxYears == 2

\* the names of the external scenarios a scenario entry may carry
ExternalScenarioPool ==
    << <<"B","A","U">>, <<"N","D","C">>, <<"N","Z">>, <<"H","i","g","h">> >>

ExternalCounts ==
    {n \in 0..MaxExternals : n <= Len(ExternalScenarioPool)}

\* a scenario entry with n external scenarios, and the n items NewDatabase
\* loads under "external data" for them
ScnWithExternals(n) ==
    Scenario(Remind, SSP2Base, <<FEWind>>, Inventory,
             [present |-> TRUE,
              scenarios |-> SubSeq(ExternalScenarioPool, 1, n),
              data |-> [e \in 1..n |-> <<ProductionCoal>>]],
             [present |-> TRUE, pathways |-> <<>>])

\* the `scenarios` argument of PathwaysDataPackage(...)
ExportScenarioLists ==
    { <<ScnRemind>>, <<ScnImage>>, <<ScnRemind, ScnImage>> }
    \cup UNION {{ <<ScnWithExternals(n)>>, <<ScnWithExternals(n), ScnImage>>,
                  <<ScnImage, ScnWithExternals(n)>> } : n \in ExternalCounts}

\* the `years` argument of PathwaysDataPackage(...)
YearLists == {[y \in 1..n |-> 2040 + 10 * y] : n \in 1..MaxYears}

Packages == {NewScenarios(y, l) : y \in YearLists, l \in ExportScenarioLists}

\* lines 301-308: the slices appended for the external data, entry by entry
RECURSIVE ExternalSlices(_, _)
ExternalSlices(scns, s) ==
    IF s > Len(scns) THEN <<>>
    ELSE (IF scns[s].external.present
          THEN [e \in 1..Len(scns[s].external.data) |->
                    [owner |-> s, external |-> e]]
          ELSE <<>>) \o ExternalSlices(scns, s + 1)

\* lines 293-308: scenario_data, each slice named by the entry it comes from
\* (external = 0: the entry's "iam data")
ScenarioData(scns) ==
    [s \in 1..Len(scns) |-> [owner |-> s, external |-> 0]]
        \o ExternalSlices(scns, 1)

\* lines 317-318: name += f"-{external['scenario']}"
RECURSIVE ExternalSuffix(_)
ExternalSuffix(ext) ==
    IF ext = <<>> THEN <<>>
    ELSE <<"-">> \o Head(ext) \o ExternalSuffix(Tail(ext))

\* lines 315-318: the composite name of a scenario entry
ScenarioName(scn) ==
    upper(scn.model) \o <<" ", "-", " ">> \o scn.pathway
        \o (IF scn.external.present
            THEN ExternalSuffix(scn.external.scenarios) ELSE <<>>)

\* lines 314-320: the names appended to self.scenario_names
RECURSIVE AppendNames(_, _, _)
AppendNames(names, scns, s) ==
    IF s > Len(scns) THEN names
    ELSE LET name == ScenarioName(scns[s])
         IN  AppendNames(IF scns[s].external.present
                         THEN names \o <<name, name>>
                         ELSE names \o <<name>>,
                         scns, s + 1)

File(kind, of) == [kind |-> kind, of |-> of]

\* write_db_to_matrices: one folder of matrices per scenario entry
InventoryFiles(scns) ==
    {File("inventories", <<scns[s].model, scns[s].pathway, scns[s].year>>) :
        s \in 1..Len(scns)}

ScenarioDataFile == File("scenario_data/scenario_data.csv", <<>>)
MappingFile == File("mapping/mapping.yaml", <<>>)
DescriptorFile == File("datapackage.json", <<>>)

\* writing files replaces the files of the same path
Write(dir, files, run) ==
    {a \in dir : a.path \notin files} \cup {[path |-> f, run |-> run] : f \in files}

rmtree_skipped(dir) == dir

\* line 101: shutil.rmtree(Path.cwd() / "pathways", ignore_errors=True)
rmtree(dir) == {}

InitExport ==
    /\ FltrIdle
    /\ MapRestIdle
    /\ GainsIdle
    /\ scenarios \in Packages
    /\ scenario_names = <<>>
    /\ directory = {}
    /\ removed = {}
    /\ runs = 0
    /\ slices = <<>>
    /\ labels = <<>>
    /\ xpc = "ready"

\* PathwaysDataPackage.__init__, lines 35-62: another object, after a run
NewPackage ==
    /\ xpc \in {"done", "raised", "crashed"}
    /\ runs < MaxRuns
    /\ scenarios' \in Packages
    /\ scenario_names' = <<>>
    /\ slices' = <<>>
    /\ labels' = <<>>
    /\ xpc' = "ready"
    /\ UNCHANGED <<directory, removed, runs>>
    /\ UNCHANGED <<fltrVars, mapRest, gainsVars>>

\* export_datapackage, line 101
ClearDirectory ==
    /\ xpc \in {"ready", "done", "raised"}
    /\ runs < MaxRuns
    /\ directory' = rmtree(directory)
    /\ removed' = directory \ directory'
    /\ runs' = runs + 1
    /\ slices' = <<>>
    /\ labels' = <<>>
    /\ xpc' = "cleared"
    /\ UNCHANGED <<scenarios, scenario_names>>
    /\ UNCHANGED <<fltrVars, mapRest, gainsVars>>

\* export_datapackage, lines 104-106
WriteMatrices ==
    /\ xpc = "cleared"
    /\ directory' = Write(directory, InventoryFiles(scenarios), runs)
    /\ xpc' = "inventories"
    /\ UNCHANGED <<scenarios, scenario_names, removed, runs, slices, labels>>
    /\ UNCHANGED <<fltrVars, mapRest, gainsVars>>

\* add_scenario_data, lines 287-348: the assignment of line 322 raises when
\* the labels are not as many as the slices
AddScenarioData ==
    /\ xpc = "inventories"
    /\ slices' = ScenarioData(scenarios)
    /\ scenario_names' = AppendNames(scenario_names, scenarios, 1)
    /\ IF Len(scenario_names') = Len(slices')
       THEN /\ labels' = scenario_names'
            /\ directory' = Write(directory, {ScenarioDataFile}, runs)
            /\ xpc' = "scenario_data"
       ELSE /\ xpc' = "raised"
            /\ UNCHANGED <<labels, directory>>
    /\ UNCHANGED <<scenarios, removed, runs>>
    /\ UNCHANGED <<fltrVars, mapRest, gainsVars>>

\* export_datapackage, line 108; add_variables_mapping, lines 284-285
WriteMapping_Export ==
    /\ xpc = "scenario_data"
    /\ directory' = Write(directory, {MappingFile}, runs)
    /\ xpc' = "mapping"
    /\ UNCHANGED <<scenarios, scenario_names, removed, runs, slices, labels>>
    /\ UNCHANGED <<fltrVars, mapRest, gainsVars>>

\* build_datapackage, lines 350-422; the archive is made outside the folder
BuildDatapackage ==
    /\ xpc = "mapping"
    /\ directory' = Write(directory, {DescriptorFile}, runs)
    /\ xpc' = "done"
    /\ UNCHANGED <<scenarios, scenario_names, removed, runs, slices, labels>>
    /\ UNCHANGED <<fltrVars, mapRest, gainsVars>>

\* the process dies during a step; the step under way may have written some
\* of its files (write_db_to_matrices writes scenario after scenario)
Crash ==
    /\ xpc \in {"cleared", "inventories", "scenario_data", "mapping"}
    /\ \E part \in (IF xpc = "cleared"
                    THEN {InventoryFiles(SubSeq(scenarios, 1, k)) :
                              k \in 0..Len(scenarios)}
                    ELSE IF xpc = "inventories" THEN {{}, {ScenarioDataFile}}
                    ELSE IF xpc = "scenario_data" THEN {{}, {MappingFile}}
                    ELSE {{}, {DescriptorFile}}) :
           directory' = Write(directory, part, runs)
    /\ xpc' = "crashed"
    /\ UNCHANGED <<scenarios, scenario_names, removed, runs, slices, labels>>
    /\ UNCHANGED <<fltrVars, mapRest, gainsVars>>

NextExport ==
    \/ NewPackage
    \/ ClearDirectory
    \/ WriteMatrices
    \/ AddScenarioData
    \/ WriteMapping_Export
    \/ BuildDatapackage
    \/ Crash

SpecExport == InitExport /\ [][NextExport]_vars

-----------------------------------------------------------------------------
(* Claims about export_datapackage and add_scenario_data *)

AddScenarioDataRan == xpc \in {"scenario_data", "mapping", "done", "raised"}

\* C5: in the first add_scenario_data of an object, the scenario axis gets
\* one label per slice (the assignment of the labels is accepted), and the
\* label of each slice is the composite name of the scenario entry whose
\* data the slice holds, whatever the number of entries and of external
\* scenarios they carry.
C5_OneLabelPerSlice ==
    (runs = 1 /\ AddScenarioDataRan) =>
        /\ xpc # "raised"
        /\ Len(labels) = Len(slices)
        /\ \A i \in 1..Len(slices) :
               labels[i] = ScenarioName(scenarios[slices[i].owner])

ExportUnderWay ==
    xpc \in {"cleared", "inventories", "scenario_data", "mapping", "done"}

\* C6: the directory is empty right after the clear step, before anything
\* is written; while a run is under way and when it has completed, every
\* file of the directory was written by that run, whatever earlier runs
\* (completed, failed or interrupted, with other scenarios) left there; a
\* completed run leaves exactly its inventories, scenario data, mapping
\* and descriptor.
C6_OnlyThisRunsArtifacts ==
    /\ (xpc = "cleared" => directory = {})
    /\ (ExportUnderWay => \A a \in directory : a.run = runs)
    /\ (xpc = "done" =>
            {a.path : a \in directory} =
                InventoryFiles(scenarios)
                    \cup {ScenarioDataFile, MappingFile, DescriptorFile})

\* a run completed after the clear step removed files of an earlier run
\* that this run does not write again
C6_Witness ==
    /\ xpc = "done"
    /\ runs >= 2
    /\ \E a \in removed : a.path \notin {b.path : b \in directory}

-----------------------------------------------------------------------------
(* Match modes of act_fltr *)

StartsWith(s, p) == Len(p) <= Len(s) /\ SubSeq(s, 1, Len(p)) = p

\* every include field equals one of its patterns
EqualsInclude(x, arg) ==
    \A k \in DOMAIN TermsOf(arg) :
        \E p \in TermsOf(arg)[k] : FieldValue(x, k) = p

\* some exclude field equals one of its patterns
EqualsExclude(x, arg) ==
    \E k \in DOMAIN TermsOf(arg) :
        \E p \in TermsOf(arg)[k] : FieldValue(x, k) = p

\* C11: act_fltr honours its match-mode flags: with filter_exact a returned
\* record has, in every include field, a value equal to a pattern; with
\* mask_exact a record that meets the include criteria is left out only
\* when a mask field equals a mask pattern; with both flags off a bare
\* string include pattern matches the name from its start
C11_MatchModes ==
    (call = "act_fltr" /\ ~ret.raised) =>
        /\ filter_exact =>
              \A x \in Elems(ret.out) : EqualsInclude(x, fltr)
        /\ mask_exact =>
              \A x \in Elems(database) :
                 (MeetsInclude(x, fltr) /\ ~EqualsExclude(x, mask))
                    => x \in Elems(ret.out)
        /\ (~filter_exact /\ ~mask_exact /\ fltr.tag = "str") =>
              \A x \in Elems(ret.out) : StartsWith(x["name"], fltr.val.pats[1])

-----------------------------------------------------------------------------
(* Exclude-set semantics *)

EmptyMask == DictArg(<<>>)

\* the same include specifications with mask={}
Unmasked(flt) == [tech \in DOMAIN flt |-> FilterDef(flt[tech].fltr, EmptyMask)]

\* C12: the names matched with (fltr=F, mask=M) are among the names matched
\* with (fltr=F, mask={}) on the same inventory, for act_fltr and for every
\* technology of generate_sets_from_filters; the call with mask={} returns
\* whenever the call with mask=M does
C12_MaskSubset ==
    /\ (call = "act_fltr" /\ ~ret.raised) =>
          LET open == act_fltr(database, fltr, EmptyMask, filter_exact, mask_exact)
          IN  /\ ~open.raised
              /\ NameSet(ret.out) \subseteq NameSet(open.out)
              /\ Elems(ret.out) \subseteq Elems(open.out)
    /\ (call = "generate_sets" /\ ~sets.raised) =>
          LET open == generate_sets_from_filters(database, Unmasked(filtr), dbarg)
          IN  /\ ~open.raised
              /\ DOMAIN open.map = DOMAIN sets.map
              /\ \A tech \in DOMAIN sets.map : sets.map[tech] \subseteq open.map[tech]

\* C12's case: a mask removed a name that the include specification matches
C12_Witness ==
    /\ call = "act_fltr" /\ ~ret.raised
    /\ mask.tag # "none"
    /\ ret.out # <<>>
    /\ NameSet(ret.out) #
          NameSet(act_fltr(database, fltr, EmptyMask, filter_exact, mask_exact).out)

-----------------------------------------------------------------------------
(* Disambiguation of the production pathways *)

\* the records of a scenario's database that the pathway's filter matches
MatchedBy(s, p) ==
    {x \in Elems(scenarios[s].database) :
        Passes(x, DictArg(p.alias), PathwayMask(p))}

\* the other pathway keys declared in the same configuration
OtherKeys(s, p) ==
    {PathwaysOf(scenarios[s])[k].var : k \in 1..Len(PathwaysOf(scenarios[s]))} \ {p.var}

\* C13: for an entry the production-pathway pass wrote, when the pathway's
\* filter matches more than one record of the inventory the dataset holds
\* exactly the matched records whose name contains no other pathway key of
\* the configuration, and when it matches exactly one record the dataset
\* holds that record whatever its name
C13_OtherPathwaysExcluded ==
    mpc.phase = "done" =>
        \A s \in 1..Len(scenarios) :
           \A k \in 1..Len(PathwaysOf(scenarios[s])) :
              LET p == PathwaysOf(scenarios[s])[k]
                  matched == MatchedBy(s, p)
                  found == IF p.var \in DOMAIN mapping
                           THEN {Triple(d) : d \in Elems(mapping[p.var]["dataset"])}
                           ELSE {}
              IN  (p.var \in DOMAIN mapping /\ SvOf(mapping, p.var) = p.variable) =>
                     /\ Cardinality(matched) > 1 =>
                           found = {Triple(x) : x \in {y \in matched :
                                       ~\E v \in OtherKeys(s, p) :
                                            StrContains(y["name"], v)}}
                     /\ Cardinality(matched) = 1 =>
                           found = {Triple(x) : x \in matched}

-----------------------------------------------------------------------------
(* Deduplication of the dataset lists *)

Triples(ds) == {Triple(ds[i]) : i \in 1..Len(ds)}

NoTwoEqual(ds) ==
    \A i, j \in 1..Len(ds) : i # j => Triple(ds[i]) # Triple(ds[j])

\* the same entries, each as many times
SameCollection(a, b) ==
    /\ Len(a) = Len(b)
    /\ \A d \in Elems(a) \cup Elems(b) :
          Cardinality({i \in 1..Len(a) : a[i] = d}) =
             Cardinality({i \in 1..Len(b) : b[i] = d})

\* what find_activities gave for a row of the Alias Table
FoundForRow(r) ==
    find_activities(table[r].fltr, scenarios[1].database, table[r].mask).out

\* what find_activities gave for a production pathway of scenario s
FoundForPathway(s, p) ==
    find_activities(DictArg(p.alias), scenarios[s].database, PathwayMask(p)).out

\* C14: in every dataset list of the mapping no two entries are equal in
\* name, reference product and unit; the list of an Alias Table entry has
\* an entry for every distinct triple find_activities returned, and so has
\* the list of a production pathway for every such triple that the
\* disambiguation does not remove; and deduplicating the list once more
\* gives the same collection of entries
C14_Deduplication ==
    \A var \in DOMAIN mapping :
       "dataset" \in DOMAIN mapping[var] =>
          LET ds == mapping[var]["dataset"]
          IN  /\ NoTwoEqual(ds)
              /\ \A again \in Deduplicated(ds) : SameCollection(again, ds)
              /\ \A p \in AliasPlaces :
                    (table[p[1]].var = var /\ AliasAt(p).variable = SvOf(mapping, var))
                       => Triples(ds) = Triples(FoundForRow(p[1]))
              /\ \A s \in 1..Len(scenarios) :
                    \A k \in 1..Len(PathwaysOf(scenarios[s])) :
                       LET p == PathwaysOf(scenarios[s])[k]
                       IN  (p.var = var /\ p.variable = SvOf(mapping, var)) =>
                              /\ Triples(ds) \subseteq Triples(FoundForPathway(s, p))
                              /\ \A d \in Elems(FoundForPathway(s, p)) :
                                    (~\E v \in OtherKeys(s, p) :
                                         StrContains(d["name"], v))
                                       => Triple(d) \in Triples(ds)

\* C14's case: find_activities returned an entry twice for the row Coal, and
\* the list of mapping["Coal"] holds it once
C14_Witness ==
    /\ mpc.phase \in {"alias", "pathways", "done"}
    /\ Len(table) >= 1 /\ table[1] = RowCoal
    /\ VarCoal \in DOMAIN mapping
    /\ "dataset" \in DOMAIN mapping[VarCoal]
    /\ ~NoTwoEqual(FoundForRow(1))
    /\ Len(FoundForRow(1)) = Len(mapping[VarCoal]["dataset"]) + 1

-----------------------------------------------------------------------------
(* InventorySet.generate_gains_mapping_IAM *)

MaxSectors == 2

\* sector aliases of the GAINS mapping file and coarse IAM keys
SectorPool == {"Power_Gen_Coal", "Power_Gen_NatGas", "Transport_Road"}
IamKeys == {"Power", "Transport"}
SectorNames == {ElecHardCoal, ElecWind}

\* the mappings a caller may pass: some sectors, each with a set of names
GainsMappings == UNION {[D -> SUBSET SectorNames] : D \in SUBSET SectorPool}

\* the items of the gains_aliases_IAM dict, in the order of the file
AliasItems ==
    {q \in SeqsUpTo(SectorPool \X IamKeys, MaxSectors) :
        \A i, j \in 1..Len(q) : i # j => q[i][1] # q[j][1]}

\* a variant that assigns instead of updating
SetReplaced(old, new) == new

\* line 139: set.update
SetUpdated(old, new) == old \cup new

\* line 137 and 139: new_map[iam] of a defaultdict(set)
DefaultSet(m, key) == IF key \in DOMAIN m THEN m[key] ELSE {}

InitGains ==
    /\ FltrIdle
    /\ MapIdle
    /\ ExportIdle
    /\ gains_mapping \in GainsMappings
    /\ gains_passed = gains_mapping
    /\ EU_to_IAM_var \in AliasItems
    /\ new_map = <<>>
    /\ gpc = [phase |-> "loop", i |-> 1]

\* lines 138-139, eu being a key of mapping
GainsUpdate ==
    /\ gpc.phase = "loop" /\ gpc.i <= Len(EU_to_IAM_var)
    /\ LET eu == EU_to_IAM_var[gpc.i][1]
           iam == EU_to_IAM_var[gpc.i][2]
       IN  /\ eu \in DOMAIN gains_mapping
           /\ new_map' = Put(new_map, iam,
                             SetUpdated(DefaultSet(new_map, iam), gains_mapping[eu]))
    /\ gpc' = [gpc EXCEPT !.i = gpc.i + 1]
    /\ UNCHANGED <<gains_mapping, gains_passed, EU_to_IAM_var>>
    /\ UNCHANGED <<fltrVars, mapVars, expVars>>

\* line 139, eu not being a key of mapping: new_map[iam] is created, then
\* mapping[eu] raises KeyError
GainsKeyError ==
    /\ gpc.phase = "loop" /\ gpc.i <= Len(EU_to_IAM_var)
    /\ LET eu == EU_to_IAM_var[gpc.i][1]
           iam == EU_to_IAM_var[gpc.i][2]
       IN  /\ eu \notin DOMAIN gains_mapping
           /\ new_map' = Put(new_map, iam, DefaultSet(new_map, iam))
    /\ gpc' = [gpc EXCEPT !.phase = "raised"]
    /\ UNCHANGED <<gains_mapping, gains_passed, EU_to_IAM_var>>
    /\ UNCHANGED <<fltrVars, mapVars, expVars>>

\* line 141
GainsReturn ==
    /\ gpc.phase = "loop" /\ gpc.i > Len(EU_to_IAM_var)
    /\ gpc' = [gpc EXCEPT !.phase = "returned"]
    /\ UNCHANGED <<gains_mapping, gains_passed, EU_to_IAM_var, new_map>>
    /\ UNCHANGED <<fltrVars, mapVars, expVars>>

NextGains == GainsUpdate \/ GainsKeyError \/ GainsReturn

SpecGains == InitGains /\ [][NextGains]_vars

\* the sector aliases whose IAM alias is k
SectorsOf(k) ==
    {EU_to_IAM_var[i][1] : i \in {j \in 1..Len(EU_to_IAM_var) : EU_to_IAM_var[j][2] = k}}

\* C15: when generate_gains_mapping_IAM returns, the result has exactly the
\* IAM aliases as keys, its value at each key k is the union of mapping[eu]
\* over the sector aliases eu whose IAM alias is k, and the mapping passed
\* in is as it was, at every step
C15_GainsRekeyed ==
    /\ gpc.phase \in {"loop", "returned", "raised"} => gains_mapping = gains_passed
    /\ gpc.phase = "returned" =>
          /\ DOMAIN new_map = {EU_to_IAM_var[i][2] : i \in 1..Len(EU_to_IAM_var)}
          /\ \A k \in DOMAIN new_map :
                new_map[k] = UNION {gains_passed[eu] : eu \in SectorsOf(k)}

\* C15's case: two sectors with different sets were regrouped under one key
C15_Witness ==
    /\ gpc.phase = "returned"
    /\ \E k \in DOMAIN new_map :
          /\ Cardinality(SectorsOf(k)) = 2
          /\ \E a, b \in SectorsOf(k) :
                /\ gains_passed[a] # {} /\ gains_passed[b] # {}
                /\ gains_passed[a] # gains_passed[b]
          /\ Cardinality(new_map[k]) = 2

-----------------------------------------------------------------------------
(* The label list across calls on one object *)

\* the labels add_scenario_data builds for the scenarios, from an empty list
NamesOfThisRun == AppendNames(<<>>, scenarios, 1)

\* C16: whenever add_scenario_data has run, on the first or on a later
\* export of the same object, self.scenario_names holds the labels of the
\* object's scenarios as the first call builds them, in the same number
C16_ScenarioNamesPerRun ==
    AddScenarioDataRan => scenario_names = NamesOfThisRun

=============================================================================
